---- MODULE Spec2Model ----
(***************************************************************************)
(* Card-generation pipeline of web-qr: handleGenerate (src/App.tsx), its   *)
(* favicon acquirer fetchFaviconBase64 (src/App.tsx) and its metadata      *)
(* acquirer fetchMetadataWithGemini (src/components/ui/Button.tsx, second  *)
(* half of the file).                                                      *)
(*                                                                         *)
(* Strings that the code inspects (URLs, hostnames, content types) are     *)
(* sequences of one-character strings, so that trim, the scheme test,      *)
(* String.replace, String.includes and String.startsWith are computed the  *)
(* way the code computes them.                                             *)
(***************************************************************************)
EXTENDS Integers, Sequences, FiniteSets, TLC

VARIABLES
    nz,         \* one run of the URL functions of handleGenerate / fetchMetadataWithGemini
    fv,         \* one call of fetchFaviconBase64
    cardData,   \* App state: the current CardData, or NoCard (null)
    status,     \* App state: the current GenerationStatus
    att,        \* the invocations of handleGenerate, by invocation number
    ex,         \* the export handlers: the run in progress and what exports did so far
    sc,         \* SmartCard: its props, its state and its screenshot <img>
    px,         \* getProxiedUrl: the clock and the screenshot URLs built so far
    gn          \* App state: the viewport and color scheme selected, and the
                \* generations started with what each captured of them

vars == <<nz, fv, cardData, status, att, ex, sc, px, gn>>

----------------------------------------------------------------------------
(* Characters and string primitives of the JavaScript runtime.             *)

Lower(c) ==
    CASE c = "H" -> "h" [] c = "T" -> "t" [] c = "P" -> "p" [] c = "S" -> "s"
      [] c = "W" -> "w" [] c = "E" -> "e" [] c = "X" -> "x" [] c = "A" -> "a"
      [] c = "M" -> "m" [] c = "L" -> "l" [] c = "C" -> "c" [] c = "O" -> "o"
      [] OTHER -> c

toLowerCase(s) == [i \in 1..Len(s) |-> Lower(s[i])]

IsWhiteSpace(c) == c \in {" ", "\t", "\n"}

Digits == {"0", "1", "2", "3", "4", "5", "6", "7", "8", "9"}

RECURSIVE TrimStart(_)
TrimStart(s) ==
    IF s # <<>> /\ IsWhiteSpace(Head(s)) THEN TrimStart(Tail(s)) ELSE s

RECURSIVE TrimEnd(_)
TrimEnd(s) ==
    IF s # <<>> /\ IsWhiteSpace(s[Len(s)])
    THEN TrimEnd(SubSeq(s, 1, Len(s) - 1))
    ELSE s

\* String.prototype.trim
trim(s) == TrimEnd(TrimStart(s))

\* String.prototype.startsWith
startsWith(s, p) == Len(s) >= Len(p) /\ SubSeq(s, 1, Len(p)) = p

\* String.prototype.indexOf, 1-based; 0 when p does not occur in s
indexOf(s, p) ==
    LET hits == {i \in 1..(Len(s) - Len(p) + 1) : SubSeq(s, i, i + Len(p) - 1) = p}
    IN  IF hits = {} THEN 0 ELSE CHOOSE i \in hits : \A j \in hits : i <= j

\* String.prototype.includes
includes(s, p) == indexOf(s, p) # 0

\* String.prototype.replace with a string pattern: the first occurrence only
replace(s, p, r) ==
    LET i == indexOf(s, p)
    IN  IF i = 0 THEN s
        ELSE SubSeq(s, 1, i - 1) \o r \o SubSeq(s, i + Len(p), Len(s))

\* the least index in from..to of a character of s that is in chars (that
\* is not in chars, when `among` is FALSE); to + 1 when there is none
FirstIndex(s, from, to, chars, among) ==
    LET hits == {j \in from..to : (s[j] \in chars) = among}
    IN  IF hits = {} THEN to + 1 ELSE CHOOSE i \in hits : \A j \in hits : i <= j

HttpScheme  == <<"h", "t", "t", "p", ":", "/", "/">>
HttpsScheme == <<"h", "t", "t", "p", "s", ":", "/", "/">>
Www         == <<"w", "w", "w", ".">>
LinkTo      == <<"L", "i", "n", "k", " ", "t", "o", " ">>
Website     == <<"W", "e", "b", "s", "i", "t", "e">>
DataImage   == <<"d", "a", "t", "a", ":", "i", "m", "a", "g", "e">>
DataColon   == <<"d", "a", "t", "a", ":">>
Base64Tail  == <<";", "b", "a", "s", "e", "6", "4", ",">>
\* JavaScript's undefined, as a value no string of the model equals
UNDEFINED   == <<"undefined">>

----------------------------------------------------------------------------
(* handleGenerate, lines 138-150: normalisation, URL parsing, domain.      *)

\* /^https?:\/\//i.test(s)
HasHttpScheme(s) ==
    \/ startsWith(toLowerCase(s), HttpScheme)
    \/ startsWith(toLowerCase(s), HttpsScheme)

NormalizeNoTrim(urlInput) ==
    IF ~HasHttpScheme(urlInput) THEN HttpsScheme \o urlInput ELSE urlInput

NormalizeAlwaysPrefix(urlInput) == HttpsScheme \o trim(urlInput)

\* processedUrl of a non-blank input
Normalize(urlInput) ==
    LET processedUrl == trim(urlInput)
    IN  IF ~HasHttpScheme(processedUrl)
        THEN HttpsScheme \o processedUrl
        ELSE processedUrl

\* new URL(s) for an s with an http(s) scheme over the model's alphabet
\* (letters, digits, ".", "/", ":", " "): the slashes after the scheme are
\* skipped (hostStart), the authority ends at the first "/" (authEnd), the
\* host at the first ":" (hostEnd), the port after it is digits or empty,
\* the host is not empty and holds no space;
\* hostname is the host in lower case.  ok = FALSE is the thrown TypeError.
URLParse(s) ==
    IF ~HasHttpScheme(s) THEN [ok |-> FALSE, hostname |-> <<>>]
    ELSE
      LET n         == IF startsWith(toLowerCase(s), HttpsScheme) THEN Len(HttpsScheme)
                       ELSE Len(HttpScheme)
          hostStart == FirstIndex(s, n + 1, Len(s), {"/"}, FALSE)
          authEnd   == FirstIndex(s, hostStart, Len(s), {"/"}, TRUE)
          hostEnd   == FirstIndex(s, hostStart, authEnd - 1, {":"}, TRUE)
      IN  IF \/ hostEnd = hostStart
             \/ \E i \in hostStart..(hostEnd - 1) : IsWhiteSpace(s[i])
             \/ \E i \in (hostEnd + 1)..(authEnd - 1) : s[i] \notin Digits
          THEN [ok |-> FALSE, hostname |-> <<>>]
          ELSE [ok |-> TRUE, hostname |-> toLowerCase(SubSeq(s, hostStart, hostEnd - 1))]

StripLeadingWww(hostname) ==
    IF startsWith(hostname, Www) THEN SubSeq(hostname, Len(Www) + 1, Len(hostname))
    ELSE hostname

\* urlObj.hostname.replace('www.', '')
DisplayDomain(hostname) == replace(hostname, Www, <<>>)

----------------------------------------------------------------------------
(* fetchMetadataWithGemini.                                                *)

JsObject(title, description) ==
    [t |-> "object", title |-> title, description |-> description]
JsNull  == [t |-> "null", title |-> UNDEFINED, description |-> UNDEFINED]
JsArray == [t |-> "array", title |-> UNDEFINED, description |-> UNDEFINED]

ServiceTitle       == <<"T", "i", "t", "l", "e">>
ServiceDescription == <<"D", "e", "s", "c">>

\* The bodies the service's text can hold once the markdown fences are
\* removed and the text trimmed.
Bodies == {"object", "objectNoTitle", "array", "null", "malformed", "empty"}

\* response of ai.models.generateContent: a rejection (network error), or a
\* text, possibly wrapped in ```json fences
GeminiResponses ==
    [rejects : {TRUE}, fenced : {FALSE}, body : {"empty"}]
    \cup [rejects : {FALSE}, fenced : BOOLEAN, body : Bodies]

\* JSON.parse
JSONparse(body) ==
    CASE body = "object"        -> [ok |-> TRUE,
                                    value |-> JsObject(ServiceTitle, ServiceDescription)]
      [] body = "objectNoTitle" -> [ok |-> TRUE,
                                    value |-> JsObject(UNDEFINED, ServiceDescription)]
      [] body = "array"         -> [ok |-> TRUE, value |-> JsArray]
      [] body = "null"          -> [ok |-> TRUE, value |-> JsNull]
      [] OTHER                  -> [ok |-> FALSE, value |-> JsNull]

MetadataFallbackWebsite(url) == JsObject(Website, url)

MetadataFallbackThrows(url) == [t |-> "thrown", title |-> UNDEFINED, description |-> UNDEFINED]

\* the catch block, lines 101-122
MetadataFallback(url) ==
    LET u == URLParse(url)
    IN  IF u.ok THEN JsObject(u.hostname, LinkTo \o url)
        ELSE JsObject(Website, url)

\* the try block fails: rejection, empty text, or text JSON.parse rejects
GeminiFails(svc) ==
    \/ svc.rejects
    \/ (~svc.fenced /\ svc.body = "empty")
    \/ ~JSONparse(svc.body).ok

\* what the promise resolves to: the value of the catch block when the try
\* block fails, else whatever JSON.parse returned (line 100)
MetadataResult(onFailure, svc) ==
    IF GeminiFails(svc) THEN onFailure
    ELSE JSONparse(svc.body).value

fetchMetadataWithGemini(url, svc) == MetadataResult(MetadataFallback(url), svc)

----------------------------------------------------------------------------
(* SpecUrl: the URL functions applied to one typed input.                  *)

Example    == <<"e", "x", "a", "m", "p", "l", "e">>
DotCom     == <<".", "c", "o", "m">>
ExampleCom == Example \o DotCom

Leads   == {<<>>, <<" ">>}
Trails  == {<<>>, <<" ">>, <<"\n">>}
Schemes == {<<>>, HttpScheme, HttpsScheme,
            <<"H", "T", "T", "P", ":", "/", "/">>,
            <<"H", "t", "t", "p", "S", ":", "/", "/">>,
            <<"f", "t", "p", ":", "/", "/">>}
Hosts   == {<<>>,
            ExampleCom,
            Www \o ExampleCom,
            Www \o Www \o ExampleCom,
            <<"m", "y">> \o Www \o ExampleCom,
            <<"E", "x", "a", "m", "p", "l", "e", ".", "C", "O", "M">>,
            <<"W", "W", "W", ".">> \o ExampleCom,
            <<"m", "y", " ">> \o ExampleCom,
            ExampleCom \o <<":", "8", "0">>,
            ExampleCom \o <<":", "x">>}
Paths   == {<<>>, <<"/", "p", "a", "t", "h">>}

\* what the user can have typed into the input field
UrlInputs ==
    {l \o s \o h \o p \o t : l \in Leads, s \in Schemes, h \in Hosts, p \in Paths,
                             t \in Trails}

\* fetchFaviconBase64 not yet called

\* App state before any export (lines 27-28): no social image, the dialog
\* closed; no export handler running, nothing downloaded, no alert shown
ExStart ==
    [pc |-> "idle", kind |-> "none", captures |-> <<>>, outcome |-> "none",
     socialImage |-> <<>>, showSocialPreview |-> FALSE,
     downloads |-> <<>>, alerts |-> <<>>, calls |-> 0]

\* SmartCard as mounted (part_000 lines 12-15) with data = null: no <img>,
\* so no request for a screenshot; events, loadedSrc and resetFrom record
\* what happened to the displayed record, generations counts the
\* generations started
NoData == [present |-> FALSE, id |-> 0, screenshotUrl |-> <<>>,
           backupScreenshotUrl |-> <<>>]

ScStart ==
    [data |-> NoData, isLoading |-> FALSE,
     imageError |-> FALSE, faviconError |-> FALSE, imageLoading |-> TRUE,
     currentScreenshotUrl |-> <<>>,
     request |-> "none", events |-> <<>>, loadedSrc |-> <<>>,
     resetFrom |-> "none", generations |-> 0]

PxStart == [now |-> 0, records |-> <<>>]

\* lines 26 and 29: color scheme light, the first viewport option (desktop)
\* selected; no generation started
GnStart ==
    [selectedViewport |-> [width |-> 1280, height |-> 800],
     websiteTheme |-> <<"l", "i", "g", "h", "t">>, runs |-> <<>>]

NoBlob == [throws |-> FALSE, size |-> 0, type |-> <<"none">>]

FvStart ==
    [pc |-> "idle", k |-> 0, requested |-> <<>>, outcomes |-> <<>>, accepted |-> 0,
     blob |-> NoBlob, result |-> <<>>, settled |-> "pending"]

NoMetadata == [t |-> "none", title |-> UNDEFINED, description |-> UNDEFINED]
NoSvc      == [rejects : {FALSE}, fenced : {FALSE}, body : {"none"}]
NoRecord   == [url |-> <<>>, domain |-> <<>>, title |-> <<>>, description |-> <<>>]

NzStart(urlInput) ==
    [pc |-> "input", urlInput |-> urlInput, processedUrl |-> <<>>, hostname |-> <<>>,
     domain |-> <<>>, svc |-> CHOOSE x \in NoSvc : TRUE, metadata |-> NoMetadata,
     card |-> NoRecord]


\* lines 138-143
UrlNormalize ==
    /\ nz.pc = "input"
    /\ IF trim(nz.urlInput) = <<>>
       THEN nz' = [nz EXCEPT !.pc = "returned"]
       ELSE nz' = [nz EXCEPT !.pc = "normalized",
                             !.processedUrl = Normalize(nz.urlInput)]
    /\ UNCHANGED <<fv, cardData, status, att, ex, sc, px, gn>>

\* lines 149-150
UrlParse ==
    /\ nz.pc = "normalized"
    /\ LET urlObj == URLParse(nz.processedUrl)
       IN  IF urlObj.ok
           THEN nz' = [nz EXCEPT !.pc = "parsed",
                                 !.hostname = urlObj.hostname,
                                 !.domain = DisplayDomain(urlObj.hostname)]
           ELSE nz' = [nz EXCEPT !.pc = "error"]
    /\ UNCHANGED <<fv, cardData, status, att, ex, sc, px, gn>>

\* line 154: fetchMetadataWithGemini(processedUrl), whatever the service does
UrlMetadata ==
    /\ nz.pc = "parsed"
    /\ \E svc \in GeminiResponses :
         nz' = [nz EXCEPT !.pc = "metadata",
                          !.svc = svc,
                          !.metadata = fetchMetadataWithGemini(nz.processedUrl, svc)]
    /\ UNCHANGED <<fv, cardData, status, att, ex, sc, px, gn>>

\* lines 178-196, the fields that derive from the URL and the metadata;
\* reading a property of null throws, and the catch sets the error status
UrlAssemble ==
    /\ nz.pc = "metadata"
    /\ IF nz.metadata.t \in {"null", "thrown"}
       THEN nz' = [nz EXCEPT !.pc = "error"]
       ELSE nz' = [nz EXCEPT !.pc = "completed",
                             !.card = [url |-> nz.processedUrl,
                                       domain |-> nz.domain,
                                       title |-> nz.metadata.title,
                                       description |-> nz.metadata.description]]
    /\ UNCHANGED <<fv, cardData, status, att, ex, sc, px, gn>>

NoCard     == [present |-> FALSE]
IdleStatus == [step |-> "idle", message |-> "none"]

InitUrl ==
    /\ nz \in {NzStart(i) : i \in UrlInputs}
    /\ fv = FvStart
    /\ cardData = NoCard
    /\ status = IdleStatus
    /\ att = <<>>
    /\ ex = ExStart
    /\ sc = ScStart
    /\ px = PxStart
    /\ gn = GnStart

NextUrl == UrlNormalize \/ UrlParse \/ UrlMetadata \/ UrlAssemble

SpecUrl == InitUrl /\ [][NextUrl]_vars

NzNormalized == nz.pc \in {"normalized", "parsed", "metadata", "completed"}
                \/ (nz.pc = "error" /\ nz.processedUrl # <<>>)
NzParsed     == nz.pc \in {"parsed", "metadata", "completed"}
                \/ (nz.pc = "error" /\ nz.hostname # <<>>)
NzMetadata   == nz.pc \in {"metadata", "completed"}
                \/ (nz.pc = "error" /\ nz.metadata.t # "none")

\* C3 as claimed: when the metadata service fails, fetchMetadataWithGemini
\* returns title = the card's display domain (www. stripped) and
\* description = "Link to " + url.
C3_TitleIsDisplayDomain ==
    (NzMetadata /\ GeminiFails(nz.svc)) =>
        /\ nz.metadata.t = "object"
        /\ nz.metadata.title = nz.domain
        /\ nz.metadata.description = LinkTo \o nz.processedUrl

\* C3 amended: when the metadata service fails (network error, empty
\* response, text that is not parseable JSON), fetchMetadataWithGemini does
\* not throw and returns title = the URL's hostname as parsed (www. kept)
\* and description = "Link to " + url; the title equals the display domain
\* exactly when stripping changed nothing.
C3_FallbackIsHostname ==
    (NzMetadata /\ GeminiFails(nz.svc)) =>
        /\ nz.metadata.t = "object"
        /\ nz.metadata.title = nz.hostname
        /\ nz.metadata.description = LinkTo \o nz.processedUrl
        /\ (nz.metadata.title = nz.domain) <=> ~includes(nz.hostname, Www)

C3_Witness ==
    /\ nz.pc = "metadata"
    /\ ~nz.svc.rejects /\ nz.svc.body = "malformed"
    /\ nz.hostname = Www \o ExampleCom
    /\ nz.metadata.title = Www \o ExampleCom

\* C5: every non-blank input is trimmed and prefixed with https:// exactly
\* when it has no http(s) scheme (tested case-insensitively, as the code
\* does), before the hostname and the domain are computed from it; so the
\* url of every published record has an http(s) scheme, an input that has
\* one is only trimmed, and normalising twice changes nothing.
C5_Normalized ==
    LET t == trim(nz.urlInput)
    IN  /\ (nz.pc # "input" /\ t # <<>>) => NzNormalized
        /\ NzNormalized =>
             /\ t # <<>>
             /\ HasHttpScheme(nz.processedUrl)
             /\ (HasHttpScheme(t) => nz.processedUrl = t)
             /\ (~HasHttpScheme(t) => nz.processedUrl = HttpsScheme \o t)
             /\ Normalize(nz.processedUrl) = nz.processedUrl
             /\ (nz.urlInput = ExampleCom => nz.processedUrl = HttpsScheme \o ExampleCom)
        /\ NzParsed =>
             /\ URLParse(nz.processedUrl).ok
             /\ nz.hostname = URLParse(nz.processedUrl).hostname
             /\ (nz.urlInput = ExampleCom => nz.domain = ExampleCom)
        /\ nz.pc = "completed" =>
             /\ nz.card.url = nz.processedUrl
             /\ \/ startsWith(toLowerCase(nz.card.url), HttpScheme)
                \/ startsWith(toLowerCase(nz.card.url), HttpsScheme)

C5_Witness ==
    /\ nz.pc = "completed"
    /\ nz.urlInput = <<" ">> \o ExampleCom \o <<"\n">>
    /\ nz.card.url = HttpsScheme \o ExampleCom
    /\ nz.card.domain = ExampleCom

\* C6 as claimed: the display domain never begins with www. and is the
\* hostname with only a leading www. removed.
C6_LeadingWwwStripped ==
    NzParsed =>
        /\ ~startsWith(nz.domain, Www)
        /\ nz.domain = StripLeadingWww(nz.hostname)

----------------------------------------------------------------------------
(* SpecFavicon: one call of fetchFaviconBase64 (src/App.tsx, lines 88-134). *)

\* the priority list of favicon services, lines 90-97
services == <<"gstaticT2", "googleS2", "duckduckgo">>

MinIconSize == 100

ImagePng    == <<"i", "m", "a", "g", "e", "/", "p", "n", "g">>
ImageIcon   == <<"i", "m", "a", "g", "e", "/", "x", "-", "i", "c", "o", "n">>
TextHtml    == <<"t", "e", "x", "t", "/", "h", "t", "m", "l">>
TextPlain   == <<"t", "e", "x", "t", "/", "p", "l", "a", "i", "n">>
AppXhtml    == <<"a", "p", "p", "l", "i", "c", "a", "t", "i", "o", "n", "/",
                 "x", "h", "t", "m", "l", "+", "x", "m", "l">>
OctetStream == <<"a", "p", "p", "l", "i", "c", "a", "t", "i", "o", "n", "/",
                 "o", "c", "t", "e", "t", "-", "s", "t", "r", "e", "a", "m">>
Text        == <<"t", "e", "x", "t">>
Html        == <<"h", "t", "m", "l">>

\* Content types and body sizes a favicon service (or an error page) returns
BlobTypes == {ImagePng, ImageIcon, TextHtml, TextPlain, AppXhtml, OctetStream, <<>>}
BlobSizes == {0, MinIconSize - 1, MinIconSize, 40 * MinIconSize}

\* what `await response.blob()` gives: a thrown error, or a Blob
BlobOutcomes ==
    [throws : {TRUE}, size : {0}, type : {<<>>}]
    \cup [throws : {FALSE}, size : BlobSizes, type : BlobTypes]

\* what `await fetch(proxiedUrl)` gives: a thrown transport error, a
\* response with a non-OK status, or an OK response
FetchOutcomes == {"throws", "notOk", "ok"}

\* the loop moves to the next service and requests it (lines 99-103), or
\* the loop ends and '' is returned (line 133)
NextService(f) ==
    IF f.k < Len(services)
    THEN [f EXCEPT !.pc = "fetching", !.k = f.k + 1,
                   !.requested = Append(f.requested, services[f.k + 1])]
    ELSE [f EXCEPT !.pc = "done", !.result = <<>>, !.settled = "resolved"]

AcceptAndContinue(f, blob) ==
    [NextService(f) EXCEPT !.accepted = f.k, !.blob = blob]

\* line 114: the candidate is accepted and the FileReader promise returned
Accept(f, blob) ==
    [f EXCEPT !.pc = "reading", !.accepted = f.k, !.blob = blob]

FetchVerdictRethrows(r) ==
    CASE r = "throws" -> "reject"
      [] r = "notOk"  -> "continue"
      [] OTHER        -> "blob"

\* lines 103-105 and the catch of lines 127-130
FetchVerdict(r) ==
    CASE r = "throws" -> "continue"
      [] r = "notOk"  -> "continue"
      [] OTHER        -> "blob"

BlobValidNoTypeCheck(blob) == ~(blob.size < MinIconSize)

\* line 110, negated
BlobValid(blob) ==
    ~(blob.size < MinIconSize \/ includes(blob.type, Text) \/ includes(blob.type, Html))

\* lines 107-112 and the catch of lines 127-130
BlobVerdict(blob) ==
    IF blob.throws THEN "continue"
    ELSE IF BlobValid(blob) THEN "return" ELSE "continue"

\* FileReader.readAsDataURL: data:<type>;base64,<payload>, the payload left out
readAsDataURL(blob) ==
    DataColon \o (IF blob.type = <<>> THEN OctetStream ELSE blob.type) \o Base64Tail

onloadendNoCheck(result) == result

\* lines 116-124; '' also stands for a null reader.result
onloadend(result) ==
    IF result # <<>> /\ startsWith(result, DataImage) THEN result ELSE <<>>

\* line 88-103: the call builds the list and requests the first service
FaviconCall ==
    /\ fv.pc = "idle"
    /\ fv' = NextService(fv)
    /\ UNCHANGED <<nz, cardData, status, att, ex, sc, px, gn>>

\* fetch(proxiedUrl) settles
FaviconFetchSettles ==
    /\ fv.pc = "fetching"
    /\ \E r \in FetchOutcomes :
         LET v == FetchVerdict(r)
             f == [fv EXCEPT !.outcomes = Append(fv.outcomes, [fetch |-> r, blob |-> NoBlob])]
         IN  CASE v = "continue" -> fv' = NextService(f)
               [] v = "reject"   -> fv' = [f EXCEPT !.pc = "done", !.settled = "rejected"]
               [] OTHER          -> fv' = [fv EXCEPT !.pc = "blob"]
    /\ UNCHANGED <<nz, cardData, status, att, ex, sc, px, gn>>

\* response.blob() settles
FaviconBlobSettles ==
    /\ fv.pc = "blob"
    /\ \E b \in BlobOutcomes :
         LET f == [fv EXCEPT !.outcomes = Append(fv.outcomes, [fetch |-> "ok", blob |-> b])]
         IN  IF BlobVerdict(b) = "return"
             THEN fv' = Accept(f, b)
             ELSE fv' = NextService(f)
    /\ UNCHANGED <<nz, cardData, status, att, ex, sc, px, gn>>

\* reader.onloadend fires, with a result or with null after a read error
FaviconLoadEnd ==
    /\ fv.pc = "reading"
    /\ \E readOk \in BOOLEAN :
         fv' = [fv EXCEPT !.pc = "done",
                          !.result = onloadend(IF readOk THEN readAsDataURL(fv.blob)
                                               ELSE <<>>),
                          !.settled = "resolved"]
    /\ UNCHANGED <<nz, cardData, status, att, ex, sc, px, gn>>

InitFavicon ==
    /\ fv = FvStart
    /\ nz = NzStart(<<>>)
    /\ cardData = NoCard
    /\ status = IdleStatus
    /\ att = <<>>
    /\ ex = ExStart
    /\ sc = ScStart
    /\ px = PxStart
    /\ gn = GnStart

NextFavicon ==
    FaviconCall \/ FaviconFetchSettles \/ FaviconBlobSettles \/ FaviconLoadEnd

SpecFavicon == InitFavicon /\ [][NextFavicon]_vars

\* a candidate's outcome is one the claims call rejected: transport error,
\* non-OK status, unreadable body, body under 100 bytes, text or HTML type
OutcomeRejected(o) ==
    \/ o.fetch \in {"throws", "notOk"}
    \/ o.blob.throws
    \/ o.blob.size < 100
    \/ \E i \in 1..(Len(o.blob.type) - 3) :
         \/ SubSeq(o.blob.type, i, i + 3) = Text
         \/ SubSeq(o.blob.type, i, i + 3) = Html

\* C1: the candidates are requested one at a time in list order, candidate
\* k+1 only after candidate k was rejected, and none after an accepted one
\* (if candidate 1 is accepted, candidates 2 and 3 are never requested).
C1_SequentialShortCircuit ==
    LET n == Len(fv.requested)
    IN  /\ n <= Len(services)
        /\ \A i \in 1..n : fv.requested[i] = services[i]
        /\ fv.pc # "idle" => n >= 1
        /\ Len(fv.outcomes) \in {n - 1, n}
        /\ \A i \in 1..(n - 1) : OutcomeRejected(fv.outcomes[i])
        /\ fv.pc \in {"fetching", "blob"} => Len(fv.outcomes) = n - 1
        /\ fv.accepted # 0 =>
             /\ fv.accepted = n
             /\ Len(fv.outcomes) = n
             /\ ~OutcomeRejected(fv.outcomes[n])
             /\ fv.pc \in {"reading", "done"}

C1_Witness ==
    /\ fv.pc = "done"
    /\ fv.accepted = 1
    /\ fv.requested = <<"gstaticT2">>
    /\ fv.result = DataColon \o ImagePng \o Base64Tail

\* C2: when all three candidates fail, whatever the combination of
\* failures, fetchFaviconBase64 resolves to '' and it never rejects.
C2_AllFailGivesAbsent ==
    /\ fv.settled # "rejected"
    /\ (Len(fv.outcomes) = Len(services)
        /\ \A i \in 1..Len(services) : OutcomeRejected(fv.outcomes[i]))
       => (fv.pc = "done" /\ fv.settled = "resolved" /\ fv.result = <<>>)

C2_Witness ==
    /\ fv.pc = "done"
    /\ fv.settled = "resolved"
    /\ fv.result = <<>>
    /\ Len(fv.outcomes) = 3
    /\ fv.outcomes[1].fetch = "throws"
    /\ fv.outcomes[2].fetch = "notOk"
    /\ fv.outcomes[3].fetch = "ok"
    /\ fv.outcomes[3].blob.type = TextHtml
    /\ fv.outcomes[3].blob.size = 40 * MinIconSize

----------------------------------------------------------------------------
(* Spec: the App state (cardData, status) and the invocations of           *)
(* handleGenerate (src/App.tsx, lines 136-197), which may overlap.  Each   *)
(* invocation runs from the submit to the await of Promise.all in one      *)
(* step; its three acquisitions then settle in any order, and the one that *)
(* settles Promise.all runs the invocation to its end.                     *)

MaxAttempts == 2

Last(q) == q[Len(q)]

\* inputs submitted: blank, parseable (no scheme, a leading space, a www.
\* host), unparseable (a space in the host)
GenInputs ==
    {<<" ">>,
     <<" ">> \o Www \o ExampleCom,
     <<"m", "y", " ">> \o ExampleCom}

\* the call fetchMetadataWithGemini(url) of line 154 in flight.  What its
\* catch block returns is a function of url alone and is carried with the
\* call; the service's response decides at settling whether it is used.
MetaPending(url) ==
    [t |-> "pending", title |-> UNDEFINED, description |-> UNDEFINED,
     onFailure |-> MetadataFallback(url)]
FavNone     == [st |-> "none", value |-> <<>>]
FavPending  == [st |-> "pending", value |-> <<>>]

\* QRCode.toDataURL(text): a PNG data URI whose payload encodes the text
QRCodetoDataURL(text) == DataColon \o ImagePng \o Base64Tail \o text

\* what the promise of fetchFaviconBase64 resolves to (SpecFavicon): '' or
\* the data URI of an accepted image
FaviconResults ==
    {<<>>, onloadend(readAsDataURL([throws |-> FALSE, size |-> MinIconSize,
                                    type |-> ImagePng]))}

StatusOf(step) ==
    [step |-> step,
     message |-> CASE step = "fetching_metadata" -> "Analyzing URL with Gemini..."
                   [] step = "error" -> "Failed to generate card. Please try again."
                   [] OTHER -> "none"]

Invocation(urlInput) ==
    [pc |-> "returned", urlInput |-> urlInput, processedUrl |-> <<>>, domain |-> <<>>,
     metadata |-> NoMetadata, qr |-> "none", favicon |-> FavNone,
     sets |-> <<>>, published |-> FALSE, pendingAtResume |-> 0, card |-> NoCard,
     button |-> FALSE, inFlight |-> 0]

InvokeLaunchFirst(urlInput) ==
    IF trim(urlInput) = <<>> THEN Invocation(urlInput)
    ELSE LET processedUrl == Normalize(urlInput)
             urlObj       == URLParse(processedUrl)
         IN  [Invocation(urlInput) EXCEPT
                !.pc = IF urlObj.ok THEN "awaiting" ELSE "done",
                !.processedUrl = processedUrl,
                !.domain = DisplayDomain(urlObj.hostname),
                !.metadata = MetaPending(processedUrl), !.qr = "pending",
                !.favicon = FavPending,
                !.sets = IF urlObj.ok THEN <<"fetching_metadata">>
                         ELSE <<"fetching_metadata", "error">>]

\* lines 136-162, up to the await; a URL that does not parse throws at
\* line 149 and the catch of lines 193-196 runs in the same step
Invoke(urlInput) ==
    IF trim(urlInput) = <<>> THEN Invocation(urlInput)
    ELSE LET processedUrl == Normalize(urlInput)
             urlObj       == URLParse(processedUrl)
         IN  IF ~urlObj.ok
             THEN [Invocation(urlInput) EXCEPT
                     !.pc = "done", !.processedUrl = processedUrl,
                     !.sets = <<"fetching_metadata", "error">>]
             ELSE [Invocation(urlInput) EXCEPT
                     !.pc = "awaiting", !.processedUrl = processedUrl,
                     !.domain = DisplayDomain(urlObj.hostname),
                     !.metadata = MetaPending(processedUrl), !.qr = "pending",
                     !.favicon = FavPending,
                     !.sets = <<"fetching_metadata">>]

\* the acquisitions of an invocation that have not settled
Pending(r) ==
    Cardinality({x \in {"metadata", "qr", "favicon"} :
                   \/ (x = "metadata" /\ r.metadata.t = "pending")
                   \/ (x = "qr" /\ r.qr = "pending")
                   \/ (x = "favicon" /\ r.favicon.st = "pending")})

PromiseAny(r) ==
    IF r.qr = "rejected" \/ r.metadata.t = "thrown" THEN "rejected"
    ELSE IF Pending(r) < 3 THEN "fulfilled"
    ELSE "pending"

\* Promise.all of line 153: rejected as soon as one promise rejects,
\* fulfilled once all are fulfilled
PromiseAll(r) ==
    IF r.qr = "rejected" \/ r.metadata.t = "thrown" THEN "rejected"
    ELSE IF Pending(r) = 0 THEN "fulfilled"
    ELSE "pending"

\* lines 178-188
newCard(r) ==
    [present |-> TRUE, url |-> r.processedUrl, domain |-> r.domain,
     title |-> r.metadata.title, description |-> r.metadata.description,
     faviconUrl |-> r.favicon.value,
     qrCodeDataUrl |-> QRCodetoDataURL(r.processedUrl)]

ResumePublishesOnError(r) ==
    IF PromiseAll(r) = "rejected" \/ r.metadata.t = "null"
    THEN [step |-> "error", publish |-> TRUE, card |-> newCard(r)]
    ELSE [step |-> "completed", publish |-> TRUE, card |-> newCard(r)]

ResumeCompletesUnpublished(r) ==
    IF PromiseAll(r) = "rejected" \/ r.metadata.t = "null"
    THEN [step |-> "error", publish |-> FALSE, card |-> NoCard]
    ELSE [step |-> "completed", publish |-> FALSE, card |-> NoCard]

\* lines 153-196 after the await: a rejection of Promise.all, or the
\* TypeError of reading metadata.title of null at line 181, goes to the
\* catch; otherwise the record is published and completed is set
ResumeOutcome(r) ==
    IF PromiseAll(r) = "rejected" \/ r.metadata.t = "null"
    THEN [step |-> "error", publish |-> FALSE, card |-> NoCard]
    ELSE [step |-> "completed", publish |-> TRUE, card |-> newCard(r)]

isGeneratingQrOnly == status.step = "generating_qr"

\* line 298
isGenerating == status.step = "fetching_metadata" \/ status.step = "generating_qr"

SubmitAlwaysEnabled(urlInput) == trim(urlInput) # <<>>

\* the submit button of the form (lines 421-429) is disabled while
\* isGenerating or while the input is blank (Button.tsx line 30); a form
\* whose submit button is disabled is not submitted by Enter either
SubmitEnabled(urlInput) == ~isGenerating /\ trim(urlInput) # <<>>

\* the invocations still waiting at the await of line 153
InFlight == {a \in 1..Len(att) : att[a].pc = "awaiting"}

\* handleGenerate is invoked with urlInput in the text field.  The handler
\* itself does not look at the button or at the status: the record notes
\* whether the form could have issued the call and how many invocations
\* were in flight.
handleGenerate ==
    /\ Len(att) < MaxAttempts
    /\ \E urlInput \in GenInputs :
         LET r == [Invoke(urlInput) EXCEPT !.button = SubmitEnabled(urlInput),
                                          !.inFlight = Cardinality(InFlight)]
         IN  /\ att' = Append(att, r)
             /\ status' = IF r.sets = <<>> THEN status
                          ELSE StatusOf(Last(r.sets))
    /\ UNCHANGED <<nz, fv, cardData, ex, sc, px, gn>>

\* An acquisition of invocation a has settled, leaving it as r.  When that
\* settles Promise.all, the rest of handleGenerate (lines 163-196) runs in
\* the microtasks of the same turn of the event loop, before any other
\* event is handled.  Acquisitions still pending then run on unobserved:
\* nothing reads their results, and the model follows them no further.
Settled(a, r) ==
    IF PromiseAll(r) = "pending"
    THEN /\ att' = [att EXCEPT ![a] = r]
         /\ UNCHANGED <<cardData, status>>
    ELSE LET o == ResumeOutcome(r)
         IN  /\ att' = [att EXCEPT ![a] =
                          [r EXCEPT !.pc = "done",
                                    !.sets = Append(r.sets, o.step),
                                    !.published = o.publish,
                                    !.pendingAtResume = Pending(r),
                                    !.card = o.card]]
             /\ cardData' = IF o.publish THEN o.card ELSE cardData
             /\ status' = StatusOf(o.step)

\* the promise of fetchMetadataWithGemini(processedUrl) settles
MetadataSettles ==
    /\ \E a \in 1..Len(att) :
         /\ att[a].pc = "awaiting"
         /\ att[a].metadata.t = "pending"
         /\ \E svc \in GeminiResponses :
              Settled(a, [att[a] EXCEPT !.metadata =
                            MetadataResult(att[a].metadata.onFailure, svc)])
    /\ UNCHANGED <<nz, fv, ex, sc, px, gn>>

\* the promise of QRCode.toDataURL settles; it rejects for a text that
\* does not fit a QR code
QrSettles ==
    /\ \E a \in 1..Len(att) :
         /\ att[a].pc = "awaiting"
         /\ att[a].qr = "pending"
         /\ \E q \in {"resolved", "rejected"} : Settled(a, [att[a] EXCEPT !.qr = q])
    /\ UNCHANGED <<nz, fv, ex, sc, px, gn>>

\* the promise of fetchFaviconBase64 settles
FaviconSettles ==
    /\ \E a \in 1..Len(att) :
         /\ att[a].pc = "awaiting"
         /\ att[a].favicon.st = "pending"
         /\ \E v \in FaviconResults :
              Settled(a, [att[a] EXCEPT !.favicon = [st |-> "resolved", value |-> v]])
    /\ UNCHANGED <<nz, fv, ex, sc, px, gn>>

Init ==
    /\ cardData = NoCard
    /\ status = IdleStatus
    /\ att = <<>>
    /\ nz = NzStart(<<>>)
    /\ fv = FvStart
    /\ ex = ExStart
    /\ sc = ScStart
    /\ px = PxStart
    /\ gn = GnStart

Next == handleGenerate \/ MetadataSettles \/ QrSettles \/ FaviconSettles

Spec == Init /\ [][Next]_vars

\* the three acquisitions of an attempt are taken to settle
SpecFair ==
    /\ Spec
    /\ WF_vars(MetadataSettles) /\ WF_vars(QrSettles) /\ WF_vars(FaviconSettles)

----------------------------------------------------------------------------
(* Claims about handleGenerate.                                            *)

Attempts == 1..Len(att)

\* the attempt's input is not blank and its normalised form does not parse
ParseFails(r) ==
    /\ trim(r.urlInput) # <<>>
    /\ ~URLParse(Normalize(r.urlInput)).ok

EndsIn(r, step) == r.sets # <<>> /\ Last(r.sets) = step

\* attempt a sets `step` in the step from the unprimed to the primed state
SetsNow(a, step) ==
    /\ a \in 1..Len(att')
    /\ EndsIn(att'[a], step)
    /\ (a > Len(att) \/ att[a].sets # att'[a].sets)

\* the metadata service returned parseable text that is not an object with
\* a title and a description
ShapeViolation(m) ==
    \/ m.t \in {"null", "array"}
    \/ (m.t = "object" /\ (m.title = UNDEFINED \/ m.description = UNDEFINED))

\* C4 as claimed: a shape violation of the metadata service is absorbed;
\* the generation ends completed with the local fallback title and
\* description, never in error.
C4_ShapeViolationAbsorbed ==
    \A a \in Attempts :
        (att[a].pc = "done" /\ att[a].qr = "resolved" /\ ShapeViolation(att[a].metadata))
        => /\ EndsIn(att[a], "completed")
           /\ att[a].published
           /\ att[a].card.title = MetadataFallback(att[a].processedUrl).title
           /\ att[a].card.description = LinkTo \o att[a].processedUrl

\* C7 as claimed: an unparseable URL makes error the attempt's only state
\* change; no intermediate status is set.
C7_OnlyErrorIsSet ==
    \A a \in Attempts : ParseFails(att[a]) => att[a].sets = <<"error">>

\* C7 amended: an unparseable URL ends the attempt in the step that
\* started it, with no acquisition launched and the current record
\* unchanged; the status it leaves is error with a message, set after
\* fetching_metadata was set in the same step (line 146 precedes line 149).
C7_ParseFailure ==
    /\ [](\A a \in Attempts :
            ParseFails(att[a]) =>
              /\ att[a].pc = "done"
              /\ att[a].sets = <<"fetching_metadata", "error">>
              /\ att[a].metadata.t = "none"
              /\ att[a].qr = "none"
              /\ att[a].favicon.st = "none"
              /\ ~att[a].published)
    /\ [][(Len(att') = Len(att) + 1 /\ ParseFails(att'[Len(att')])) =>
            /\ cardData' = cardData
            /\ status'.step = "error"
            /\ status'.message = "Failed to generate card. Please try again."
            /\ SubSeq(att', 1, Len(att)) = att]_vars

C7_Witness ==
    /\ Len(att) = 2
    /\ att[1].published
    /\ ParseFails(att[2])
    /\ cardData = att[1].card
    /\ status.step = "error"

\* C8: an attempt that ends in error never writes cardData: the step that
\* sets error leaves the current record as it was, and such an attempt has
\* published nothing.
C8_ErrorNeverWrites ==
    /\ [](\A a \in Attempts :
            EndsIn(att[a], "error") => (~att[a].published /\ att[a].card = NoCard))
    /\ [][(\E a \in 1..Len(att') : SetsNow(a, "error")) => cardData' = cardData]_vars

C8_Witness ==
    /\ Len(att) = 2
    /\ att[1].published
    /\ att[2].pc = "done"
    /\ att[2].metadata.t = "null"
    /\ att[2].qr = "resolved"
    /\ EndsIn(att[2], "error")
    /\ cardData.present
    /\ cardData = att[1].card

\* C9 as claimed: the assembler resumes only after all three acquisitions
\* have settled.
C9_ResumesAfterAllSettled ==
    \A a \in Attempts : att[a].pc = "done" => att[a].pendingAtResume = 0

\* C9 amended: the three acquisitions are all issued before the await; the
\* record is published and completed set only after all three have
\* settled, each fulfilled; the assembler proceeds while an acquisition is
\* still pending only when another one rejected, and then it sets error.
C9_CompletesAfterAllSettled ==
    \A a \in Attempts :
        /\ att[a].pc = "awaiting" =>
             (att[a].metadata.t # "none" /\ att[a].qr # "none" /\ att[a].favicon.st # "none")
        /\ (att[a].published \/ EndsIn(att[a], "completed")) =>
             /\ att[a].pendingAtResume = 0
             /\ Pending(att[a]) = 0
             /\ att[a].qr = "resolved"
             /\ att[a].favicon.st = "resolved"
        /\ att[a].pendingAtResume > 0 =>
             (att[a].qr = "rejected" /\ EndsIn(att[a], "error"))

C9_Witness ==
    /\ Len(att) >= 1
    /\ att[1].pc = "done"
    /\ att[1].qr = "rejected"
    /\ att[1].pendingAtResume = 2
    /\ EndsIn(att[1], "error")

\* C10: an attempt with a non-blank input sets fetching_metadata and then
\* exactly one of completed and error, completed only together with the
\* publication of its record; and once its acquisitions settle it reaches
\* completed or error.
C10_StatusSequence ==
    /\ [](\A a \in Attempts :
            /\ trim(att[a].urlInput) # <<>> =>
                 att[a].sets \in {<<"fetching_metadata">>,
                                  <<"fetching_metadata", "completed">>,
                                  <<"fetching_metadata", "error">>}
            /\ (att[a].pc = "awaiting") <=> (att[a].sets = <<"fetching_metadata">>)
            /\ EndsIn(att[a], "completed") => att[a].published)
    /\ [][\A a \in 1..Len(att') :
            SetsNow(a, "completed") =>
              /\ att[a].sets = <<"fetching_metadata">>
              /\ cardData' = att'[a].card
              /\ cardData'.present
              /\ cardData'.url = att[a].processedUrl
              /\ status'.step = "completed"]_vars
    /\ \A a \in 1..MaxAttempts :
         (Len(att) >= a /\ att[a].pc = "awaiting") ~> (Len(att) >= a /\ att[a].pc = "done")

C10_Witness ==
    /\ Len(att) = 1
    /\ att[1].sets = <<"fetching_metadata", "completed">>
    /\ cardData = att[1].card
    /\ cardData.url = HttpsScheme \o Www \o ExampleCom
    /\ cardData.domain = ExampleCom
    /\ status.step = "completed"

----------------------------------------------------------------------------
(* Overlapping invocations of handleGenerate.                              *)

\* attempt a was started while another one was in flight
Overlapped(a) == att[a].inFlight > 0

AllSettled == \A a \in Attempts : att[a].pc # "awaiting"

\* C11 as claimed implies: once overlapping attempts have all settled, the
\* current record and the status were both written by one attempt, the one
\* that resolved last.
C11_LastResolvedWroteBoth ==
    (AllSettled /\ \E a \in Attempts : Overlapped(a))
    => \E w \in Attempts :
         /\ EndsIn(att[w], "completed") \/ EndsIn(att[w], "error")
         /\ status = StatusOf(Last(att[w].sets))
         /\ cardData = att[w].card

\* C11 amended: handleGenerate has no guard of its own and overlapping
\* invocations each run to their end: the step in which an attempt
\* resolves leaves its terminal status as the status, and its record as the
\* current record when it completed, the current record untouched when it
\* failed.  The form cannot issue the overlap: an attempt started with the
\* submit button enabled, like every attempt before it, found none in
\* flight.
C11_LastResolvedWins ==
    /\ [][\A a \in 1..Len(att') :
            /\ SetsNow(a, "completed") =>
                 (cardData' = att'[a].card /\ status' = StatusOf("completed"))
            /\ SetsNow(a, "error") =>
                 (cardData' = cardData /\ status' = StatusOf("error"))
            /\ (a <= Len(att) /\ att[a].pc = "done") => att'[a] = att[a]]_vars
    /\ [](\A a \in Attempts :
            (\A b \in 1..a : att[b].button) => ~Overlapped(a))
    /\ [](cardData.present =>
            \E w \in Attempts : att[w].published /\ cardData = att[w].card)

\* two overlapping attempts both completed, the one started first resolved
\* last and its record is the current one
C11_Witness ==
    /\ Len(att) = 2
    /\ Overlapped(2)
    /\ ~att[2].button
    /\ att[1].published /\ att[2].published
    /\ att[1].card # att[2].card
    /\ cardData = att[1].card
    /\ status.step = "completed"

----------------------------------------------------------------------------
(* Image export: generateImage (App.tsx lines 51-78) and the handlers      *)
(* handleDownloadPng, handleDownloadSvg, handleSocialPreview (207-296).    *)
(* A capture is one call of htmlToImage.toPng / toSvg; whether it throws   *)
(* is the environment's choice.                                            *)

MaxExports == 3

ExportKinds == {"png", "svg", "preview"}

\* the format argument of generateImage: lines 225, 239, 288
FormatOf(kind) == IF kind = "svg" THEN "svg" ELSE "png"

\* the data URL a capture returns: it depends on the format, on the options
\* of the call site and on whether fonts were embedded
DataUrl(kind, skipFonts) == <<"data:image/", FormatOf(kind), kind, skipFonts>>

\* the handler's first await: only handleDownloadPng starts with the
\* pre-warm capture of lines 212-216
FirstAwait(kind) == IF kind = "png" THEN "prewarm" ELSE "first"

\* the capture a handler is waiting for at pc, as generateImage and line 213
\* configure it
CaptureAt(kind, pc, threw) ==
    [stage |-> pc, format |-> FormatOf(kind),
     skipFonts |-> (pc \in {"prewarm", "retry"}), threw |-> threw]

AfterCaptureRetriesOn(pc, threw) ==
    CASE pc = "prewarm" -> "first"
      [] pc = "first"   -> IF threw THEN "retry" ELSE "return"
      [] OTHER          -> IF threw THEN "retry" ELSE "return"

\* where control goes when the capture awaited at pc settles: the pre-warm
\* is followed by generateImage whatever happened (lines 212-216), a throw
\* of the first capture by the retry (lines 65-73), a throw of the retry by
\* the rethrow of line 76
AfterCapture(pc, threw) ==
    CASE pc = "prewarm" -> "first"
      [] pc = "first"   -> IF threw THEN "retry" ELSE "return"
      [] OTHER          -> IF threw THEN "throw" ELSE "return"

\* triggerDownload (lines 199-205) or lines 290-291
ExportSucceeded(e, dataUrl) ==
    IF e.kind = "preview"
    THEN [e EXCEPT !.pc = "idle", !.outcome = "done",
                   !.socialImage = dataUrl, !.showSocialPreview = TRUE]
    ELSE [e EXCEPT !.pc = "idle", !.outcome = "done",
                   !.downloads = Append(e.downloads, <<e.kind, dataUrl>>)]

ExportFailedOpensDialog(e) ==
    [e EXCEPT !.pc = "idle", !.outcome = "failed",
              !.showSocialPreview = TRUE,
              !.alerts = Append(e.alerts, e.kind)]

\* the catch of the handler: handleDownloadError (lines 247-260) or lines
\* 292-295; an alert and nothing else
ExportFailed(e) ==
    [e EXCEPT !.pc = "idle", !.outcome = "failed",
              !.alerts = Append(e.alerts, e.kind)]

\* a capture settled at e.pc
CaptureSettled(e, threw) ==
    LET c    == CaptureAt(e.kind, e.pc, threw)
        next == AfterCapture(e.pc, threw)
        e1   == [e EXCEPT !.captures = Append(e.captures, c)]
    IN  CASE next = "return" -> ExportSucceeded(e1, DataUrl(e.kind, c.skipFonts))
          [] next = "throw"  -> ExportFailed(e1)
          [] OTHER           -> [e1 EXCEPT !.pc = next]

\* one of the export buttons is clicked; lines 208, 234, 279: without a
\* current record the handler returns at once
ExportCall ==
    /\ ex.pc = "idle"
    /\ ex.calls < MaxExports
    /\ \E kind \in ExportKinds :
         ex' = IF cardData.present
               THEN [ex EXCEPT !.pc = FirstAwait(kind), !.kind = kind,
                               !.captures = <<>>, !.outcome = "running",
                               !.calls = ex.calls + 1]
               ELSE [ex EXCEPT !.kind = kind, !.captures = <<>>,
                               !.outcome = "returned", !.calls = ex.calls + 1]
    /\ UNCHANGED <<nz, fv, cardData, status, att, sc, px, gn>>

\* line 213
PrewarmSettles ==
    /\ ex.pc = "prewarm"
    /\ \E threw \in BOOLEAN : ex' = CaptureSettled(ex, threw)
    /\ UNCHANGED <<nz, fv, cardData, status, att, sc, px, gn>>

\* lines 61-64
FirstCaptureSettles ==
    /\ ex.pc = "first"
    /\ \E threw \in BOOLEAN : ex' = CaptureSettled(ex, threw)
    /\ UNCHANGED <<nz, fv, cardData, status, att, sc, px, gn>>

\* lines 69-73
RetrySettles ==
    /\ ex.pc = "retry"
    /\ \E threw \in BOOLEAN : ex' = CaptureSettled(ex, threw)
    /\ UNCHANGED <<nz, fv, cardData, status, att, sc, px, gn>>

\* onClose of SocialPreview, line 500
ClosePreview ==
    /\ ex.showSocialPreview
    /\ ex' = [ex EXCEPT !.showSocialPreview = FALSE]
    /\ UNCHANGED <<nz, fv, cardData, status, att, sc, px, gn>>

\* a record as handleGenerate publishes it
SampleCard ==
    newCard([Invoke(<<" ">> \o Www \o ExampleCom) EXCEPT
               !.metadata = JsObject(ServiceTitle, ServiceDescription),
               !.qr = "resolved",
               !.favicon = [st |-> "resolved", value |-> <<>>]])

InitExport ==
    /\ \/ (cardData = NoCard /\ status = IdleStatus)
       \/ (cardData = SampleCard /\ status = StatusOf("completed"))
       \/ (cardData = SampleCard /\ status = StatusOf("error"))
    /\ ex = ExStart
    /\ nz = NzStart(<<>>)
    /\ fv = FvStart
    /\ att = <<>>
    /\ sc = ScStart
    /\ px = PxStart
    /\ gn = GnStart

NextExport ==
    ExportCall \/ PrewarmSettles \/ FirstCaptureSettles \/ RetrySettles \/ ClosePreview

SpecExport == InitExport /\ [][NextExport]_vars

RealCaptures == SelectSeq(ex.captures, LAMBDA c : c.stage # "prewarm")

\* C12: generateImage makes the first capture with fonts; it retries only
\* when that capture threw, once, with skipFonts and in the same format; a
\* throw of the retry ends the call in failure, with no further capture.
C12_AtMostOneRetry ==
    LET r == RealCaptures
    IN  /\ Len(r) <= 2
        /\ Len(r) >= 1 => (r[1].stage = "first" /\ ~r[1].skipFonts
                           /\ r[1].format = FormatOf(ex.kind))
        /\ Len(r) = 2 => (r[1].threw /\ r[2].stage = "retry" /\ r[2].skipFonts
                          /\ r[2].format = r[1].format)
        /\ (ex.outcome = "done") <=>
             (ex.pc = "idle" /\ Len(r) >= 1 /\ ~r[Len(r)].threw)
        /\ (ex.outcome = "failed") <=>
             (ex.pc = "idle" /\ Len(r) = 2 /\ r[2].threw)
        /\ (ex.pc = "retry") <=> (ex.outcome = "running" /\ Len(r) = 1 /\ r[1].threw)

C12_Witness ==
    /\ ex.kind = "svg"
    /\ ex.outcome = "failed"
    /\ Len(RealCaptures) = 2
    /\ ex.calls = 2
    /\ Len(ex.downloads) = 1

\* C13 as claimed: every export makes a pre-warm capture before its real
\* capture.
C13_EveryExportPrewarms ==
    (ex.kind \in ExportKinds /\ Len(RealCaptures) >= 1)
    => (ex.captures[1].stage = "prewarm" /\ Len(ex.captures) = Len(RealCaptures) + 1)

\* C14: when both captures of an export throw, the handler shows an alert
\* and changes nothing else: the record, the status, the downloads, the
\* social image and the dialog flag are as before.
C14_FailureOnlyAlerts ==
    [][(ex.pc # "idle" /\ ex'.outcome = "failed") =>
         /\ cardData' = cardData
         /\ status' = status
         /\ ex'.downloads = ex.downloads
         /\ ex'.socialImage = ex.socialImage
         /\ ex'.showSocialPreview = ex.showSocialPreview
         /\ ex'.alerts = Append(ex.alerts, ex.kind)
         /\ Len(SelectSeq(ex'.captures, LAMBDA c : c.stage # "prewarm" /\ c.threw)) = 2]_vars

C14_Witness ==
    /\ ex.kind = "preview"
    /\ ex.outcome = "failed"
    /\ ex.showSocialPreview
    /\ ex.socialImage = DataUrl("preview", TRUE)
    /\ Len(ex.downloads) = 1
    /\ cardData = SampleCard
    /\ status.step = "completed"

----------------------------------------------------------------------------
(* SmartCard (src/unnamed/part_000): the screenshot of the displayed       *)
(* record.  App renders it with data = cardData and isLoading =            *)
(* isGenerating (App.tsx lines 454-458).  The <img> of lines 119-128 is    *)
(* rendered when the skeleton is not shown, a record is displayed, the     *)
(* failure flag is clear and the active source is not empty; each time it  *)
(* is mounted or its src changes the browser makes one request, which ends *)
(* in one load or one error event.                                         *)

MaxGenerations == 3

\* the record generation n publishes; handleGenerate always sets a backup
\* reference, the type CardData (types.ts line 7) makes it optional
Card(n, withBackup) ==
    [present |-> TRUE, id |-> n, screenshotUrl |-> <<"primary", n>>,
     backupScreenshotUrl |-> IF withBackup THEN <<"backup", n>> ELSE <<>>]

\* lines 27, 75, 119
ImgRendered(s) ==
    ~s.isLoading /\ s.data.present /\ ~s.imageError /\ s.currentScreenshotUrl # <<>>

\* the request of the <img> after a render that takes SmartCard from old to
\* new: none without the element, the one it had for the element kept with
\* the same src, a new one otherwise
Rendered(old, new) ==
    [new EXCEPT !.request =
        IF ~ImgRendered(new) THEN "none"
        ELSE IF ImgRendered(old) /\ old.currentScreenshotUrl = new.currentScreenshotUrl
             THEN new.request
             ELSE "pending"]

ScreenState(s) ==
    CASE ~s.data.present -> "none"
      [] s.imageError -> "Unavailable"
      [] ~s.imageLoading -> "Loaded"
      [] s.currentScreenshotUrl = s.data.screenshotUrl -> "PendingPrimary"
      [] OTHER -> "PendingBackup"

ResetKeepsError(s, data) ==
    [s EXCEPT !.data = data, !.faviconError = FALSE, !.imageLoading = TRUE,
              !.currentScreenshotUrl = data.screenshotUrl]

\* the effect of lines 18-25, run for the new data
Reset(s, data) ==
    [s EXCEPT !.data = data, !.imageError = FALSE, !.faviconError = FALSE,
              !.imageLoading = TRUE, !.currentScreenshotUrl = data.screenshotUrl]

handleScreenshotErrorNoFallback(s) ==
    [s EXCEPT !.imageLoading = FALSE, !.imageError = TRUE]

handleScreenshotErrorAlwaysSwitches(s) ==
    [s EXCEPT !.currentScreenshotUrl = s.data.backupScreenshotUrl]

handleScreenshotErrorKeepsLoading(s) ==
    IF s.data.backupScreenshotUrl # <<>>
       /\ s.currentScreenshotUrl = s.data.screenshotUrl
    THEN [s EXCEPT !.currentScreenshotUrl = s.data.backupScreenshotUrl]
    ELSE [s EXCEPT !.imageError = TRUE]

\* lines 77-88
handleScreenshotError(s) ==
    IF s.data.backupScreenshotUrl # <<>>
       /\ s.currentScreenshotUrl = s.data.screenshotUrl
    THEN [s EXCEPT !.currentScreenshotUrl = s.data.backupScreenshotUrl]
    ELSE [s EXCEPT !.imageLoading = FALSE, !.imageError = TRUE]

\* line 125
onLoad(s) == [s EXCEPT !.imageLoading = FALSE]

\* a generation starts: status fetching_metadata, the skeleton of lines
\* 28-73 replaces the card; the state of SmartCard is kept
ScGenerating ==
    /\ ~sc.isLoading
    /\ sc.generations < MaxGenerations
    /\ sc' = Rendered(sc, [sc EXCEPT !.isLoading = TRUE,
                                     !.generations = sc.generations + 1])
    /\ UNCHANGED <<nz, fv, cardData, status, att, ex, px, gn>>

\* the generation ends in error: the status changes, cardData does not, and
\* the displayed record is rendered again
ScGenerationFailed ==
    /\ sc.isLoading
    /\ sc' = Rendered(sc, [sc EXCEPT !.isLoading = FALSE])
    /\ UNCHANGED <<nz, fv, cardData, status, att, ex, px, gn>>

\* the generation completes: setCardData and setStatus (App.tsx lines
\* 190-191) give SmartCard a new data object, and the effect runs
ScPresent ==
    /\ sc.isLoading
    /\ \E withBackup \in BOOLEAN :
         sc' = Rendered(sc, [Reset(sc, Card(sc.generations, withBackup)) EXCEPT
                               !.isLoading = FALSE, !.events = <<>>,
                               !.loadedSrc = <<>>,
                               !.resetFrom = ScreenState(sc)])
    /\ UNCHANGED <<nz, fv, cardData, status, att, ex, px, gn>>

\* the request of the <img> succeeds
ImgLoad ==
    /\ sc.request = "pending"
    /\ sc' = Rendered(sc, [onLoad(sc) EXCEPT
                             !.request = "settled",
                             !.events = Append(sc.events, "load"),
                             !.loadedSrc = sc.currentScreenshotUrl])
    /\ UNCHANGED <<nz, fv, cardData, status, att, ex, px, gn>>

\* the request of the <img> fails
ImgError ==
    /\ sc.request = "pending"
    /\ sc' = Rendered(sc, [handleScreenshotError(sc) EXCEPT
                             !.request = "settled",
                             !.events = Append(sc.events, "error")])
    /\ UNCHANGED <<nz, fv, cardData, status, att, ex, px, gn>>

InitCard ==
    /\ sc = ScStart
    /\ cardData = NoCard
    /\ status = IdleStatus
    /\ nz = NzStart(<<>>)
    /\ fv = FvStart
    /\ att = <<>>
    /\ ex = ExStart
    /\ px = PxStart
    /\ gn = GnStart

NextCard == ScGenerating \/ ScGenerationFailed \/ ScPresent \/ ImgLoad \/ ImgError

SpecCard == InitCard /\ [][NextCard]_vars

\* the step is a load failure of the <img>
ErrorEvent == Len(sc'.events) = Len(sc.events) + 1 /\ Last(sc'.events) = "error"

HasBackup(s) == s.data.backupScreenshotUrl # <<>>

C16_NoBackupUnavailable ==
    /\ [][(ErrorEvent /\ sc.data.present /\ ~HasBackup(sc)) =>
            /\ sc'.imageError /\ ~sc'.imageLoading
            /\ sc'.currentScreenshotUrl = sc.currentScreenshotUrl
            /\ sc'.currentScreenshotUrl = sc.data.screenshotUrl
            /\ ~ImgRendered(sc')]_vars
    /\ []((sc.data.present /\ ~HasBackup(sc)) =>
            sc.currentScreenshotUrl = sc.data.screenshotUrl)

C16_Witness ==
    /\ sc.data.present /\ ~HasBackup(sc)
    /\ sc.events = <<"error">>
    /\ ScreenState(sc) = "Unavailable"
    /\ sc.request = "none"

\* C17: the step that presents a new record leaves the active source at the
\* new record's primary reference, the load-pending flag set and the
\* failure flags clear, whatever the state before.
C17_ResetOnNewRecord ==
    [][sc'.data # sc.data =>
         /\ sc'.data.present
         /\ sc'.currentScreenshotUrl = sc'.data.screenshotUrl
         /\ sc'.imageLoading /\ ~sc'.imageError /\ ~sc'.faviconError
         /\ ScreenState(sc') = "PendingPrimary"
         /\ sc'.request = "pending"]_vars

C17_Witness ==
    /\ sc.resetFrom = "Unavailable"
    /\ sc.data.id = 2
    /\ sc.events = <<>>
    /\ ScreenState(sc) = "PendingPrimary"

\* C18 as claimed: once the active source of the displayed record has
\* loaded, the active source stays the one that loaded and the failure flag
\* stays clear.
C18_LoadedIsTerminal ==
    sc.loadedSrc # <<>> =>
        (sc.currentScreenshotUrl = sc.loadedSrc /\ ~sc.imageError)

----------------------------------------------------------------------------
(* getProxiedUrl (App.tsx lines 81-85) and the screenshot URLs of          *)
(* handleGenerate (lines 170-176).                                         *)

MaxClock == 2
MaxProxied == 2

\* the characters encodeURIComponent leaves as they are
Unreserved ==
    {"a", "b", "c", "d", "e", "f", "g", "h", "i", "j", "k", "l", "m", "n", "o",
     "p", "q", "r", "s", "t", "u", "v", "w", "x", "y", "z",
     "0", "1", "2", "3", "4", "5", "6", "7", "8", "9",
     "-", "_", ".", "!", "~", "*", "'", "(", ")"}

\* the percent-encoding of the other characters that occur in the URLs here
PercentCode(c) ==
    CASE c = ":" -> <<"%", "3", "A">>
      [] c = "/" -> <<"%", "2", "F">>
      [] c = "?" -> <<"%", "3", "F">>
      [] c = "&" -> <<"%", "2", "6">>
      [] c = "=" -> <<"%", "3", "D">>
      [] c = "%" -> <<"%", "2", "5">>
      [] OTHER   -> <<"%", "2", "0">>

\* each character kept or replaced by its code; the string is encoded by
\* halves
RECURSIVE encodeURIComponent(_)
encodeURIComponent(s) ==
    IF s = <<>> THEN <<>>
    ELSE IF Len(s) = 1
         THEN (IF s[1] \in Unreserved THEN s ELSE PercentCode(s[1]))
         ELSE encodeURIComponent(SubSeq(s, 1, Len(s) \div 2))
              \o encodeURIComponent(SubSeq(s, (Len(s) \div 2) + 1, Len(s)))

DigitChars == <<"0", "1", "2", "3", "4", "5", "6", "7", "8", "9">>

\* a number in a template literal: its decimal digits
RECURSIVE ToDecimal(_)
ToDecimal(n) ==
    IF n < 10 THEN <<DigitChars[n + 1]>>
    ELSE ToDecimal(n \div 10) \o <<DigitChars[(n % 10) + 1]>>

MicrolinkHead ==
    <<"h", "t", "t", "p", "s", ":", "/", "/", "a", "p", "i", ".", "m", "i",
      "c", "r", "o", "l", "i", "n", "k", ".", "i", "o", "/", "?", "u", "r",
      "l", "=">>

MicrolinkParams ==
    <<"&", "s", "c", "r", "e", "e", "n", "s", "h", "o", "t", "=", "t", "r",
      "u", "e", "&", "m", "e", "t", "a", "=", "f", "a", "l", "s", "e", "&",
      "e", "m", "b", "e", "d", "=", "s", "c", "r", "e", "e", "n", "s", "h",
      "o", "t", ".", "u", "r", "l", "&", "s", "c", "r", "e", "e", "n", "s",
      "h", "o", "t", ".", "t", "y", "p", "e", "=", "p", "n", "g", "&", "s",
      "c", "r", "e", "e", "n", "s", "h", "o", "t", ".", "d", "e", "v", "i",
      "c", "e", "S", "c", "a", "l", "e", "F", "a", "c", "t", "o", "r", "=",
      "2", "&", "w", "a", "i", "t", "F", "o", "r", "=", "2", "s", "&", "s",
      "c", "r", "e", "e", "n", "s", "h", "o", "t", ".", "f", "u", "l", "l",
      "P", "a", "g", "e", "=", "f", "a", "l", "s", "e", "&", "s", "c", "r",
      "e", "e", "n", "s", "h", "o", "t", ".", "b", "g", "=", "t", "r", "u",
      "e", "&", "v", "i", "e", "w", "p", "o", "r", "t", ".", "w", "i", "d",
      "t", "h", "=">>

MicrolinkHeight ==
    <<"&", "v", "i", "e", "w", "p", "o", "r", "t", ".", "h", "e", "i", "g",
      "h", "t", "=">>

MicrolinkScheme ==
    <<"&", "c", "o", "l", "o", "r", "S", "c", "h", "e", "m", "e", "=">>

MshotsHead ==
    <<"h", "t", "t", "p", "s", ":", "/", "/", "s", "0", ".", "w", "p", ".",
      "c", "o", "m", "/", "m", "s", "h", "o", "t", "s", "/", "v", "1", "/">>

MshotsWidth == <<"?", "w", "=">>

MshotsHeight == <<"&", "h", "=">>

ProxyHead ==
    <<"h", "t", "t", "p", "s", ":", "/", "/", "w", "s", "r", "v", ".", "n",
      "l", "/", "?", "u", "r", "l", "=">>

ProxyParams ==
    <<"&", "o", "u", "t", "p", "u", "t", "=", "p", "n", "g", "&", "n", "=">>

Light == <<"l", "i", "g", "h", "t">>
Dark  == <<"d", "a", "r", "k">>

\* VIEWPORT_OPTIONS, lines 15-19: desktop and mobile
Viewports == {[width |-> 1280, height |-> 800], [width |-> 375, height |-> 812]}

\* line 170
microlinkUrl(processedUrl, viewport, websiteTheme) ==
    MicrolinkHead \o encodeURIComponent(processedUrl) \o MicrolinkParams
    \o ToDecimal(viewport.width) \o MicrolinkHeight \o ToDecimal(viewport.height)
    \o MicrolinkScheme \o websiteTheme

\* line 175
mshotsUrl(processedUrl, viewport) ==
    MshotsHead \o encodeURIComponent(processedUrl) \o MshotsWidth
    \o ToDecimal(viewport.width) \o MshotsHeight \o ToDecimal(viewport.height)

getProxiedUrlNoToken(url, now) ==
    ProxyHead \o encodeURIComponent(url) \o ProxyParams

\* lines 81-85, called when Date.now() reads now
getProxiedUrl(url, now) ==
    ProxyHead \o encodeURIComponent(url) \o ProxyParams \o ToDecimal(now)

\* Date.now() reads another value: the system clock advanced, or was set
ClockChanges ==
    /\ \E t \in 0..MaxClock : t # px.now /\ px' = [px EXCEPT !.now = t]
    /\ UNCHANGED <<nz, fv, cardData, status, att, ex, sc, gn>>

\* lines 170-176 for one generation: two calls of getProxiedUrl, the clock
\* reading the same for both or one more for the second
ScreenshotUrls ==
    /\ Len(px.records) < MaxProxied
    /\ \E viewport \in Viewports, websiteTheme \in {Light, Dark}, d \in {0, 1} :
         LET processedUrl == HttpsScheme \o Www \o ExampleCom
             primary == microlinkUrl(processedUrl, viewport, websiteTheme)
             backup  == mshotsUrl(processedUrl, viewport)
         IN  /\ px.now + d <= MaxClock
             /\ px' = [now |-> px.now + d,
                       records |-> Append(px.records,
                          [primaryTarget |-> primary, primaryToken |-> px.now,
                           screenshotUrl |-> getProxiedUrl(primary, px.now),
                           backupTarget |-> backup, backupToken |-> px.now + d,
                           backupScreenshotUrl |-> getProxiedUrl(backup, px.now + d)])]
    /\ UNCHANGED <<nz, fv, cardData, status, att, ex, sc, gn>>

InitProxy ==
    /\ px = PxStart
    /\ gn = GnStart
    /\ cardData = NoCard
    /\ status = IdleStatus
    /\ nz = NzStart(<<>>)
    /\ fv = FvStart
    /\ att = <<>>
    /\ ex = ExStart
    /\ sc = ScStart

NextProxy == ClockChanges \/ ScreenshotUrls

SpecProxy == InitProxy /\ [][NextProxy]_vars

\* the calls of getProxiedUrl made so far
ProxyCalls ==
    {[record |-> i, which |-> "primary", target |-> px.records[i].primaryTarget,
      token |-> px.records[i].primaryToken, url |-> px.records[i].screenshotUrl] :
        i \in 1..Len(px.records)}
    \cup
    {[record |-> i, which |-> "backup", target |-> px.records[i].backupTarget,
      token |-> px.records[i].backupToken, url |-> px.records[i].backupScreenshotUrl] :
        i \in 1..Len(px.records)}

\* C19 as claimed: any two calls of getProxiedUrl carry distinct tokens, and
\* two calls for the same target never give the same proxied URL.
C19_TokensDistinct ==
    \A c1, c2 \in ProxyCalls :
        c1 # c2 => (c1.token # c2.token /\ c1.url # c2.url)

\* C19 amended: the token is the clock reading at the call; two proxied
\* URLs are equal exactly when target and reading are equal; the primary
\* and the backup URL of a record always differ, by their targets.
C19_TokenIsClockReading ==
    /\ \A c1, c2 \in ProxyCalls :
         (c1.url = c2.url) <=> (c1.target = c2.target /\ c1.token = c2.token)
    /\ \A i \in 1..Len(px.records) :
         /\ px.records[i].screenshotUrl # px.records[i].backupScreenshotUrl
         /\ px.records[i].backupToken - px.records[i].primaryToken \in {0, 1}

\* two generations for the same target at different readings, with
\* different proxied URLs; the second record's two URLs carry one token
C19_Witness ==
    /\ Len(px.records) = 2
    /\ px.records[1].primaryTarget = px.records[2].primaryTarget
    /\ px.records[1].primaryToken # px.records[2].primaryToken
    /\ px.records[1].screenshotUrl # px.records[2].screenshotUrl
    /\ px.records[2].primaryToken = px.records[2].backupToken

----------------------------------------------------------------------------
(* The favicon reference of the published record: fetchFaviconBase64       *)
(* followed by the assembly of handleGenerate (lines 161, 178-191).        *)

\* the record handleGenerate assembles when fetchFaviconBase64 resolved to
\* faviconBase64 and the other two acquisitions were fulfilled
CardWithFavicon(faviconBase64) ==
    newCard([Invoke(<<" ">> \o Www \o ExampleCom) EXCEPT
               !.metadata = JsObject(ServiceTitle, ServiceDescription),
               !.qr = "resolved",
               !.favicon = [st |-> "resolved", value |-> faviconBase64]])

\* lines 190-191, with the result of the call of fetchFaviconBase64
FaviconPublish ==
    /\ fv.pc = "done"
    /\ fv.settled = "resolved"
    /\ ~cardData.present
    /\ cardData' = CardWithFavicon(fv.result)
    /\ status' = StatusOf("completed")
    /\ UNCHANGED <<nz, fv, att, ex, sc, px, gn>>

NextFaviconCard == NextFavicon \/ FaviconPublish

SpecFaviconCard == InitFavicon /\ [][NextFaviconCard]_vars

\* C20: whatever the services returned, the favicon reference of the
\* current record is '' or a data URI that starts with data:image, and
\* fetchFaviconBase64 resolves to nothing else.
C20_FaviconEmbeddedOrAbsent ==
    /\ cardData.present =>
         (cardData.faviconUrl = <<>> \/ startsWith(cardData.faviconUrl, DataImage))
    /\ fv.pc = "done" =>
         /\ fv.settled = "resolved"
         /\ (fv.result = <<>> \/ startsWith(fv.result, DataImage))

\* a body that passed the checks of line 110 but is no image gave the
\* absent sentinel; an accepted image gives its data URI
C20_Witness ==
    /\ cardData.present
    /\ fv.accepted = 2
    /\ fv.blob.type = ImageIcon
    /\ cardData.faviconUrl = DataColon \o ImageIcon \o Base64Tail
    /\ onloadend(readAsDataURL([fv.blob EXCEPT !.type = OctetStream])) = <<>>

----------------------------------------------------------------------------
(* Further claims about fetchFaviconBase64 and about SmartCard.            *)

\* C22 as claimed: fetchFaviconBase64 returns '' only when all three
\* candidates were requested and each was rejected; a candidate whose
\* conversion gives no image data URI is followed by the next one.
C22_AbsentOnlyAfterAllTried ==
    (fv.pc = "done" /\ fv.settled = "resolved" /\ fv.result = <<>>)
    => (Len(fv.requested) = Len(services) /\ fv.accepted = 0)

\* C23: the failure flag and the load-pending flag of SmartCard are never
\* both set.
C23_ErrorExcludesLoading == sc.imageError => ~sc.imageLoading

\* the record was presented pending, both of its sources failed, and the
\* failure flag is set with the load-pending flag cleared
C23_Witness ==
    /\ sc.imageError /\ ~sc.imageLoading
    /\ HasBackup(sc)
    /\ sc.events = <<"error", "error">>
    /\ sc.resetFrom = "Loaded"

----------------------------------------------------------------------------
(* App as the user drives it: handleGenerate is the onSubmit handler of    *)
(* the form (App.tsx line 352) and runs only when the form is submitted,   *)
(* which needs the submit button enabled.                                  *)

\* the form is submitted
FormSubmit == handleGenerate /\ Last(att').button

NextForm == FormSubmit \/ MetadataSettles \/ QrSettles \/ FaviconSettles

SpecForm == Init /\ [][NextForm]_vars

\* lines 460-461: the export buttons are rendered
ExportsOffered == cardData.present /\ status.step = "completed"

\* C24: while an attempt is in flight the status is fetching_metadata, so
\* isGenerating holds (skeleton shown, submit disabled) and the export
\* buttons are not rendered; at most one attempt is in flight; the status
\* is never generating_qr.
C24_InFlightIsFetching ==
    /\ InFlight # {} =>
         /\ status.step = "fetching_metadata"
         /\ isGenerating
         /\ ~ExportsOffered
         /\ Cardinality(InFlight) = 1
    /\ status.step \in {"idle", "fetching_metadata", "completed", "error"}
    /\ \A a \in Attempts : \A i \in 1..Len(att[a].sets) :
         att[a].sets[i] # "generating_qr"

\* a second attempt is in flight while the record of the first is current
C24_Witness ==
    /\ Len(att) = 2
    /\ att[1].published
    /\ cardData = att[1].card
    /\ att[2].pc = "awaiting"
    /\ att[2].qr = "resolved"
    /\ status.step = "fetching_metadata"

----------------------------------------------------------------------------
(* The record handleGenerate publishes, with its screenshot URLs, under    *)
(* changes of the viewport and of the color scheme.  handleGenerate is a   *)
(* closure of the render in which the form was submitted: after the await  *)
(* it still reads the selectedViewport and websiteTheme of that render.    *)

MaxRuns == 2

\* inputs with different normalized URLs and display domains
RecordInputs == {<<" ">> \o Www \o ExampleCom, HttpScheme \o ExampleCom}

\* what the metadata service does in these runs: a JSON object, or a failure
RecordResponses ==
    {[rejects |-> FALSE, fenced |-> FALSE, body |-> "object"],
     [rejects |-> TRUE, fenced |-> FALSE, body |-> "empty"]}

\* clock readings at which a run resolves
Readings == {0, 1}

SelectionUsedCurrent(run) ==
    [viewport |-> gn.selectedViewport, websiteTheme |-> gn.websiteTheme]

\* the selectedViewport and websiteTheme lines 170 and 175 read: those of
\* the closure
SelectionUsed(run) ==
    [viewport |-> run.viewport, websiteTheme |-> run.websiteTheme]

\* lines 170-188: newCard with its two screenshot URLs, the clock reading
\* now at line 171 and later at line 176
FullCard(r, sel, now, later) ==
    newCard(r) @@
    [screenshotUrl |->
        getProxiedUrl(microlinkUrl(r.processedUrl, sel.viewport, sel.websiteTheme), now),
     backupScreenshotUrl |->
        getProxiedUrl(mshotsUrl(r.processedUrl, sel.viewport), later)]

\* line 368: another viewport option is clicked
SelectViewport ==
    /\ \E opt \in Viewports :
         /\ opt # gn.selectedViewport
         /\ gn' = [gn EXCEPT !.selectedViewport = opt]
    /\ UNCHANGED <<nz, fv, cardData, status, att, ex, sc, px>>

\* lines 46-48
toggleWebsiteTheme ==
    /\ gn' = [gn EXCEPT !.websiteTheme = IF gn.websiteTheme = Light THEN Dark ELSE Light]
    /\ UNCHANGED <<nz, fv, cardData, status, att, ex, sc, px>>

\* handleGenerate is invoked and reaches its await: the run keeps what the
\* invocation computed and the selection its closure holds
RecordStart ==
    /\ Len(gn.runs) < MaxRuns
    /\ \E urlInput \in RecordInputs :
         LET r == Invoke(urlInput)
         IN  /\ gn' = [gn EXCEPT !.runs = Append(gn.runs,
                          [inv |-> r, viewport |-> gn.selectedViewport,
                           websiteTheme |-> gn.websiteTheme, card |-> NoCard])]
             /\ status' = StatusOf(Last(r.sets))
    /\ UNCHANGED <<nz, fv, cardData, att, ex, sc, px>>

\* Promise.all of a run is fulfilled and lines 163-191 run; the favicon
\* acquirer found nothing, the clock reads now
RecordCompletes ==
    /\ \E a \in 1..Len(gn.runs), svc \in RecordResponses, now \in Readings :
         LET run  == gn.runs[a]
             r    == [run.inv EXCEPT
                        !.pc = "done",
                        !.metadata = fetchMetadataWithGemini(run.inv.processedUrl, svc),
                        !.qr = "resolved",
                        !.favicon = [st |-> "resolved", value |-> <<>>]]
             card == FullCard(r, SelectionUsed(run), now, now)
         IN  /\ run.inv.pc = "awaiting"
             /\ gn' = [gn EXCEPT !.runs[a].inv = r, !.runs[a].card = card]
             /\ cardData' = card
             /\ status' = StatusOf("completed")
    /\ UNCHANGED <<nz, fv, att, ex, sc, px>>

\* Promise.all of a run is rejected and the catch of lines 193-196 runs
RecordFails ==
    /\ \E a \in 1..Len(gn.runs) :
         /\ gn.runs[a].inv.pc = "awaiting"
         /\ gn' = [gn EXCEPT !.runs[a].inv.pc = "done", !.runs[a].inv.qr = "rejected"]
         /\ status' = StatusOf("error")
    /\ UNCHANGED <<nz, fv, cardData, att, ex, sc, px>>

InitRecord ==
    /\ gn = GnStart
    /\ cardData = NoCard
    /\ status = IdleStatus
    /\ nz = NzStart(<<>>)
    /\ fv = FvStart
    /\ att = <<>>
    /\ ex = ExStart
    /\ sc = ScStart
    /\ px = PxStart

NextRecord ==
    SelectViewport \/ toggleWebsiteTheme \/ RecordStart \/ RecordCompletes \/ RecordFails

SpecRecord == InitRecord /\ [][NextRecord]_vars

\* every field of card derives from the input of run and from the
\* selection the run started with
DerivesFrom(card, run) ==
    LET url == Normalize(run.inv.urlInput)
    IN  /\ card.url = url
        /\ card.domain = DisplayDomain(URLParse(url).hostname)
        /\ card.qrCodeDataUrl = QRCodetoDataURL(url)
        /\ \E svc \in RecordResponses :
             /\ card.title = fetchMetadataWithGemini(url, svc).title
             /\ card.description = fetchMetadataWithGemini(url, svc).description
        /\ card.faviconUrl = <<>>
        /\ startsWith(card.screenshotUrl,
                      getProxiedUrlNoToken(
                        microlinkUrl(url, run.viewport, run.websiteTheme), 0))
        /\ startsWith(card.backupScreenshotUrl,
                      getProxiedUrlNoToken(mshotsUrl(url, run.viewport), 0))
        /\ \E now \in Readings :
             /\ Len(card.screenshotUrl) =
                  Len(getProxiedUrlNoToken(
                        microlinkUrl(url, run.viewport, run.websiteTheme), 0))
                  + Len(ToDecimal(now))
             /\ SubSeq(card.backupScreenshotUrl,
                       Len(card.backupScreenshotUrl) - Len(ToDecimal(now)) + 1,
                       Len(card.backupScreenshotUrl)) = ToDecimal(now)

\* C21: the current record is the one a single run published, all of its
\* fields deriving from that run's input and from the viewport and color
\* scheme selected when the run started; a change of the selection leaves
\* the record and the runs as they were.
C21_RecordFromOneAttempt ==
    /\ [](cardData.present =>
            \E a \in 1..Len(gn.runs) :
               /\ gn.runs[a].card = cardData
               /\ DerivesFrom(cardData, gn.runs[a]))
    /\ [][(gn'.selectedViewport # gn.selectedViewport
           \/ gn'.websiteTheme # gn.websiteTheme) =>
            (cardData' = cardData /\ gn'.runs = gn.runs /\ status' = status)]_vars
    /\ [][\A a \in 1..Len(gn.runs) :
            /\ gn'.runs[a].viewport = gn.runs[a].viewport
            /\ gn'.runs[a].websiteTheme = gn.runs[a].websiteTheme
            /\ gn'.runs[a].inv.processedUrl = gn.runs[a].inv.processedUrl
            /\ gn.runs[a].card # NoCard => gn'.runs[a].card = gn.runs[a].card]_vars

\* two overlapping runs with different inputs; the selection was changed
\* while the first was in flight and the first resolved last: the record
\* is the first run's, for the desktop viewport and the light scheme
C21_Witness ==
    /\ Len(gn.runs) = 2
    /\ gn.runs[1].inv.urlInput # gn.runs[2].inv.urlInput
    /\ gn.runs[2].card # NoCard
    /\ gn.runs[2].viewport # gn.runs[1].viewport
    /\ gn.runs[2].websiteTheme = Dark
    /\ cardData = gn.runs[1].card
    /\ cardData # gn.runs[2].card
    /\ gn.selectedViewport # gn.runs[1].viewport
    /\ cardData.screenshotUrl =
         getProxiedUrl(microlinkUrl(HttpsScheme \o Www \o ExampleCom,
                                    GnStart.selectedViewport, Light), 0)

====
